---- MODULE Spec2Model ----
(***************************************************************************)
(* Ferris Focus: the session timer state machine (timer.rs), the           *)
(* progression engine (xp.rs), the session ledger (db.rs) and the          *)
(* orchestrator that composes them (main.rs: update, on_session_complete,  *)
(* refresh_stats).                                                         *)
(*                                                                         *)
(* Calendar dates are day numbers; a timestamp is represented by its date. *)
(* Option<T> is a sequence of length at most one: None is << >> and        *)
(* Some(x) is <<x>>.                                                       *)
(***************************************************************************)
EXTENDS Integers, Sequences, FiniteSets, TLC

(***************************************************************************)
(* Bounds of the model.                                                    *)
(***************************************************************************)
\* Focus sessions the Timer may complete when driven directly (SpecTimer).
MaxCompleted == 4
\* Focus sessions the application may complete (Spec).
MaxFocus == 1
\* Calendar dates of Spec are 0..MaxDay.
MaxDay == 1
\* Focus sessions completed, and the calendar dates 0..E2EDay, of SpecE2E.
E2EFocus == 4
E2EDay == 3
FnDay == 3
FnStreak == 25
FnXp == 1100
FnLevel == 12
RowStreak == 2
RowDay == 2
LedgerRows == 2
LedgerDay == 1
\* Focus sessions completed, and the calendar dates 0..LiveDay, of SpecLive.
LiveFocus == 1
LiveDay == 0

(***************************************************************************)
(* models.rs                                                               *)
(***************************************************************************)
Focus == "Focus"
ShortBreak == "ShortBreak"
LongBreak == "LongBreak"
SessionType == {Focus, ShortBreak, LongBreak}

FOCUS_DURATION_SECS == 25 * 60
SHORT_BREAK_SECS == 5 * 60
LONG_BREAK_SECS == 15 * 60
SESSIONS_BEFORE_LONG_BREAK == 4

None == << >>
Some(x) == <<x>>

(***************************************************************************)
(* timer.rs: TimerState.  A variant's payload fields that the variant does *)
(* not carry are filled with a fixed placeholder so that every variant is  *)
(* a record of the same shape.                                             *)
(***************************************************************************)
NoType == "-"
Idle == [kind |-> "Idle", remaining_secs |-> 0, session_type |-> NoType]
Running(r, T) == [kind |-> "Running", remaining_secs |-> r, session_type |-> T]
Paused(r, T) == [kind |-> "Paused", remaining_secs |-> r, session_type |-> T]
Finished(T) == [kind |-> "Finished", remaining_secs |-> 0, session_type |-> T]

\* Timer::new
Timer_new == [state |-> Idle, focus_sessions_completed |-> 0]

\* The match of Timer::start: the configured duration of a session type.
duration(session_type) ==
    CASE session_type = Focus -> FOCUS_DURATION_SECS
      [] session_type = ShortBreak -> SHORT_BREAK_SECS
      [] session_type = LongBreak -> LONG_BREAK_SECS

\* Mutant of start: a session in progress is not discarded.
start_unless_active(t, session_type) ==
    IF t.state.kind \in {"Running", "Paused"}
    THEN t
    ELSE [t EXCEPT !.state = Running(duration(session_type), session_type)]

\* Timer::start
start(t, session_type) ==
    [t EXCEPT !.state = Running(duration(session_type), session_type)]

\* Mutant of next_session_type: the long break comes one session early.
next_session_type_early(t) ==
    IF t.state.kind = "Finished"
    THEN IF t.state.session_type = Focus
         THEN IF (t.focus_sessions_completed + 1) % SESSIONS_BEFORE_LONG_BREAK = 0
              THEN LongBreak
              ELSE ShortBreak
         ELSE Focus
    ELSE Focus

\* Timer::next_session_type
next_session_type(t) ==
    IF t.state.kind = "Finished"
    THEN IF t.state.session_type = Focus
         THEN IF /\ t.focus_sessions_completed > 0
                 /\ t.focus_sessions_completed % SESSIONS_BEFORE_LONG_BREAK = 0
              THEN LongBreak
              ELSE ShortBreak
         ELSE Focus
    ELSE Focus

\* Timer::start_next
start_next(t) == start(t, next_session_type(t))

\* Mutant of tick: the session finishes when remaining_secs is already 0.
tick_one_late(t) ==
    IF t.state.kind = "Running"
    THEN IF t.state.remaining_secs <= 0
         THEN [timer |->
                 [state |-> Finished(t.state.session_type),
                  focus_sessions_completed |->
                     IF t.state.session_type = Focus
                     THEN t.focus_sessions_completed + 1
                     ELSE t.focus_sessions_completed],
               ret |-> TRUE]
         ELSE [timer |->
                 [t EXCEPT !.state = Running(t.state.remaining_secs - 1,
                                             t.state.session_type)],
               ret |-> FALSE]
    ELSE [timer |-> t, ret |-> FALSE]

\* Mutant of tick: a Finished timer reports "finished" on every tick.
tick_refires(t) ==
    IF t.state.kind = "Running"
    THEN IF t.state.remaining_secs <= 1
         THEN [timer |->
                 [state |-> Finished(t.state.session_type),
                  focus_sessions_completed |->
                     IF t.state.session_type = Focus
                     THEN t.focus_sessions_completed + 1
                     ELSE t.focus_sessions_completed],
               ret |-> TRUE]
         ELSE [timer |->
                 [t EXCEPT !.state = Running(t.state.remaining_secs - 1,
                                             t.state.session_type)],
               ret |-> FALSE]
    ELSE [timer |-> t, ret |-> t.state.kind = "Finished"]

\* Mutant of tick: a break that finishes is counted as well.
tick_counts_breaks(t) ==
    IF t.state.kind = "Running"
    THEN LET session_type == t.state.session_type
             remaining_secs == t.state.remaining_secs
         IN IF remaining_secs <= 1
            THEN [timer |->
                    [state |-> Finished(session_type),
                     focus_sessions_completed |->
                        t.focus_sessions_completed + 1],
                  ret |-> TRUE]
            ELSE [timer |->
                    [t EXCEPT !.state = Running(remaining_secs - 1, session_type)],
                  ret |-> FALSE]
    ELSE [timer |-> t, ret |-> FALSE]

\* Mutant of tick: the last second ends the session as Idle, unreported.
tick_ends_idle(t) ==
    IF t.state.kind = "Running"
    THEN LET session_type == t.state.session_type
             remaining_secs == t.state.remaining_secs
         IN IF remaining_secs <= 1
            THEN [timer |-> [t EXCEPT !.state = Idle], ret |-> FALSE]
            ELSE [timer |->
                    [t EXCEPT !.state = Running(remaining_secs - 1, session_type)],
                  ret |-> FALSE]
    ELSE [timer |-> t, ret |-> FALSE]

\* Timer::tick: the timer after the call and the returned "finished" flag.
tick(t) ==
    IF t.state.kind = "Running"
    THEN LET session_type == t.state.session_type
             remaining_secs == t.state.remaining_secs
         IN IF remaining_secs <= 1
            THEN [timer |->
                    [state |-> Finished(session_type),
                     focus_sessions_completed |->
                        IF session_type = Focus
                        THEN t.focus_sessions_completed + 1
                        ELSE t.focus_sessions_completed],
                  ret |-> TRUE]
            ELSE [timer |->
                    [t EXCEPT !.state = Running(remaining_secs - 1, session_type)],
                  ret |-> FALSE]
    ELSE [timer |-> t, ret |-> FALSE]

\* Mutant of pause: any state that carries a session type is paused.
pause_any_session(t) ==
    IF t.state.kind # "Idle"
    THEN [t EXCEPT !.state = Paused(t.state.remaining_secs, t.state.session_type)]
    ELSE t

\* Timer::pause
pause(t) ==
    IF t.state.kind = "Running"
    THEN [t EXCEPT !.state = Paused(t.state.remaining_secs, t.state.session_type)]
    ELSE t

\* Mutant of resume: the session restarts from its full duration.
resume_restarts(t) ==
    IF t.state.kind = "Paused"
    THEN [t EXCEPT !.state = Running(duration(t.state.session_type),
                                     t.state.session_type)]
    ELSE t

\* Timer::resume
resume(t) ==
    IF t.state.kind = "Paused"
    THEN [t EXCEPT !.state = Running(t.state.remaining_secs, t.state.session_type)]
    ELSE t

\* Mutant of reset: the timer is replaced by a new one.
reset_clears_count(t) == Timer_new

\* Timer::reset
reset(t) == [t EXCEPT !.state = Idle]

\* Timer::remaining_display: (minutes, seconds)
remaining_display(t) ==
    LET secs == IF t.state.kind \in {"Running", "Paused"}
                THEN t.state.remaining_secs
                ELSE 0
    IN <<secs \div 60, secs % 60>>

\* Timer::total_duration_secs
total_duration_secs(t) ==
    IF t.state.kind \in {"Running", "Paused"}
    THEN duration(t.state.session_type)
    ELSE FOCUS_DURATION_SECS

\* An f32 in [0, 1], kept as the exact quotient num / den that the f32
\* division rounds.
Ratio(num, den) == [num |-> num, den |-> den]

\* Mutant of progress: the elapsed share is taken of the Focus duration.
progress_of_focus_duration(t) ==
    IF t.state.kind = "Idle"
    THEN Ratio(0, 1)
    ELSE LET remaining == IF t.state.kind \in {"Running", "Paused"}
                          THEN t.state.remaining_secs
                          ELSE 0
             total == FOCUS_DURATION_SECS
         IN IF total = 0
            THEN Ratio(0, 1)
            ELSE Ratio(total - remaining, total)

\* Timer::progress: 1.0 - (remaining as f32 / total as f32)
progress(t) ==
    IF t.state.kind = "Idle"
    THEN Ratio(0, 1)
    ELSE LET remaining == IF t.state.kind \in {"Running", "Paused"}
                          THEN t.state.remaining_secs
                          ELSE 0
             total == total_duration_secs(t)
         IN IF total = 0
            THEN Ratio(0, 1)
            ELSE Ratio(total - remaining, total)

\* Timer::current_session_type
current_session_type(t) ==
    IF t.state.kind = "Idle" THEN None ELSE Some(t.state.session_type)

is_running(t) == t.state.kind = "Running"
is_paused(t) == t.state.kind = "Paused"
is_finished(t) == t.state.kind = "Finished"

(***************************************************************************)
(* models.rs: UserProfile, FerrisStage.                                    *)
(***************************************************************************)
\* UserProfile::default
UserProfile_default ==
    [total_xp |-> 0, level |-> 1, current_streak |-> 0, longest_streak |-> 0,
     last_session_date |-> None]

\* SessionType::as_str
as_str(session_type) ==
    CASE session_type = Focus -> "focus"
      [] session_type = ShortBreak -> "short_break"
      [] session_type = LongBreak -> "long_break"

(***************************************************************************)
(* xp.rs.  XP totals, levels and the streaks the application reaches stay  *)
(* far below 2^32; the one u32 operation a caller's argument can overflow  *)
(* is the multiplication in calculate_xp, which keeps its width.           *)
(***************************************************************************)
BASE_XP == 100
STREAK_BONUS_PER_DAY == 10
MAX_STREAK_BONUS == 200
XP_PER_LEVEL == 500

Min(a, b) == IF a <= b THEN a ELSE b
Max(a, b) == IF a >= b THEN a ELSE b

\* u32 * u32 for a < 2^31 and b < 2^15, in 16-bit limbs: the product modulo
\* 2^32 as hi * 2^16 + lo, and whether the full product exceeded u32::MAX.
Limb == 2^16
mul_u32(a, b) ==
    LET lo == (a % Limb) * b
        hi == (a \div Limb) * b + (lo \div Limb)
    IN [hi |-> hi % Limb, lo |-> lo % Limb, overflow |-> hi >= Limb]

\* u32::min of a product in limbs and a bound below 2^16
min_u32(m, bound) == IF m.hi = 0 THEN Min(m.lo, bound) ELSE bound

\* calculate_xp as a build without overflow checks computes it (the product
\* wraps modulo 2^32).
calculate_xp(current_streak) ==
    LET bonus == min_u32(mul_u32(current_streak, STREAK_BONUS_PER_DAY),
                         MAX_STREAK_BONUS)
    IN BASE_XP + bonus

\* calculate_xp as called: a build with overflow checks panics (None) where
\* the product overflows.
calculate_xp_call(current_streak, overflow_checks) ==
    IF overflow_checks /\ mul_u32(current_streak, STREAK_BONUS_PER_DAY).overflow
    THEN None
    ELSE Some(calculate_xp(current_streak))

\* Mutant of calculate_level: a level is reached only above its threshold.
calculate_level_above_threshold(total_xp) ==
    IF total_xp > 0 /\ total_xp % XP_PER_LEVEL = 0
    THEN total_xp \div XP_PER_LEVEL
    ELSE (total_xp \div XP_PER_LEVEL) + 1

\* calculate_level
calculate_level(total_xp) == (total_xp \div XP_PER_LEVEL) + 1

\* Mutant of level_progress: the XP of the earlier levels is not subtracted.
level_progress_of_total(total_xp) == Ratio(total_xp, XP_PER_LEVEL)

\* level_progress: xp_in_level as f32 / XP_PER_LEVEL as f32
level_progress(total_xp) ==
    LET level == calculate_level(total_xp)
        xp_at_current_level == (level - 1) * XP_PER_LEVEL
        xp_in_level == total_xp - xp_at_current_level
    IN Ratio(xp_in_level, XP_PER_LEVEL)

\* Mutant of ferris_stage: Junior starts at level 3.
ferris_stage_junior_at_three(level) ==
    CASE level = 1 -> "Egg"
      [] level = 2 -> "Hatchling"
      [] level \in 3..6 -> "Junior"
      [] level \in 7..9 -> "Senior"
      [] OTHER -> "King"

\* ferris_stage
ferris_stage(level) ==
    CASE level = 1 -> "Egg"
      [] level \in 2..3 -> "Hatchling"
      [] level \in 4..6 -> "Junior"
      [] level \in 7..9 -> "Senior"
      [] OTHER -> "King"

\* Mutant of update_streak: a missed day does not reset the streak.
update_streak_no_reset(last_session_date, today, current_streak) ==
    IF last_session_date = None
    THEN 1
    ELSE LET diff == today - last_session_date[1]
         IN CASE diff = 0 -> Max(current_streak, 1)
              [] OTHER -> current_streak + 1

\* Mutant of update_streak: a last date after today leaves the streak alone.
update_streak_keeps_on_future_date(last_session_date, today, current_streak) ==
    IF last_session_date = None
    THEN 1
    ELSE LET diff == today - last_session_date[1]
         IN CASE diff = 0 -> Max(current_streak, 1)
              [] diff = 1 -> current_streak + 1
              [] diff < 0 -> current_streak
              [] OTHER -> 1

\* update_streak
update_streak(last_session_date, today, current_streak) ==
    IF last_session_date = None
    THEN 1
    ELSE LET diff == today - last_session_date[1]
         IN CASE diff = 0 -> Max(current_streak, 1)
              [] diff = 1 -> current_streak + 1
              [] OTHER -> 1

(***************************************************************************)
(* Text.  A formatted date or timestamp is the pair of its format and the  *)
(* day it names; the empty string is << >>.                                *)
(***************************************************************************)
DATE_FMT == "%Y-%m-%d"
TIMESTAMP_FMT == "%Y-%m-%dT%H:%M:%S"
EmptyString == << >>

\* NaiveDate::format("%Y-%m-%d"), Local::now().format("%Y-%m-%d")
format_date(d) == <<DATE_FMT, d>>

\* Local::now().format("%Y-%m-%dT%H:%M:%S")
format_timestamp(d) == <<TIMESTAMP_FMT, d>>

\* NaiveDate::parse_from_str(s, "%Y-%m-%d").ok()
parse_date(s) ==
    IF Len(s) = 2 /\ s[1] = DATE_FMT THEN Some(s[2]) ELSE None

\* substr(started_at, 1, 10): the date a stored timestamp starts with, if any.
date_prefix(s) ==
    IF Len(s) = 2 /\ s[1] \in {DATE_FMT, TIMESTAMP_FMT} THEN Some(s[2]) ELSE None

(***************************************************************************)
(* db.rs.  A connection is the store behind it: the user_profile row and   *)
(* the rows of sessions in insertion order.                                *)
(***************************************************************************)
\* init_db on a new file: both tables created, the profile row inserted.
init_db ==
    [user_profile |->
        [total_xp |-> 0, level |-> 1, current_streak |-> 0, longest_streak |-> 0,
         last_session_date |-> None],
     sessions |-> << >>]

\* Mutant of save_session: INSERT OR REPLACE under the id 1.
save_session_insert_or_replace(conn, session) ==
    [conn EXCEPT !.sessions =
        <<[id |-> 1,
           started_at |-> session.started_at,
           completed_at |-> session.completed_at,
           duration_secs |-> session.duration_secs,
           session_type |-> as_str(session.session_type),
           completed |-> session.completed]>>]

\* save_session: the INSERT; the store assigns the id.
save_session(conn, session) ==
    [conn EXCEPT !.sessions =
        Append(@, [id |-> Len(@) + 1,
                   started_at |-> session.started_at,
                   completed_at |-> session.completed_at,
                   duration_secs |-> session.duration_secs,
                   session_type |-> as_str(session.session_type),
                   completed |-> session.completed])]

\* Mutant of get_profile: a date that does not parse fails the load, and the
\* caller falls back to the default profile.
get_profile_rejects_bad_date(conn) ==
    LET row == conn.user_profile
        last_date_str == row.last_session_date
    IN IF last_date_str # None /\ parse_date(last_date_str[1]) = None
       THEN UserProfile_default
       ELSE [total_xp |-> row.total_xp,
             level |-> row.level,
             current_streak |-> row.current_streak,
             longest_streak |-> row.longest_streak,
             last_session_date |->
                 IF last_date_str = None
                 THEN None
                 ELSE parse_date(last_date_str[1])]

\* get_profile
get_profile(conn) ==
    LET row == conn.user_profile
        last_date_str == row.last_session_date
    IN [total_xp |-> row.total_xp,
        level |-> row.level,
        current_streak |-> row.current_streak,
        longest_streak |-> row.longest_streak,
        last_session_date |->
            IF last_date_str = None THEN None ELSE parse_date(last_date_str[1])]

\* Mutant of update_profile: the date is written in the timestamp format.
update_profile_writes_timestamp(conn, profile) ==
    LET last_date_str ==
            IF profile.last_session_date = None
            THEN None
            ELSE Some(format_timestamp(profile.last_session_date[1]))
    IN [conn EXCEPT !.user_profile =
            [total_xp |-> profile.total_xp,
             level |-> profile.level,
             current_streak |-> profile.current_streak,
             longest_streak |-> profile.longest_streak,
             last_session_date |-> last_date_str]]

\* Mutant of update_profile: the UPDATE leaves the streak columns out.
update_profile_without_streaks(conn, profile) ==
    LET last_date_str ==
            IF profile.last_session_date = None
            THEN None
            ELSE Some(format_date(profile.last_session_date[1]))
    IN [conn EXCEPT !.user_profile =
            [total_xp |-> profile.total_xp,
             level |-> profile.level,
             current_streak |-> @.current_streak,
             longest_streak |-> @.longest_streak,
             last_session_date |-> last_date_str]]

\* update_profile
update_profile(conn, profile) ==
    LET last_date_str ==
            IF profile.last_session_date = None
            THEN None
            ELSE Some(format_date(profile.last_session_date[1]))
    IN [conn EXCEPT !.user_profile =
            [total_xp |-> profile.total_xp,
             level |-> profile.level,
             current_streak |-> profile.current_streak,
             longest_streak |-> profile.longest_streak,
             last_session_date |-> last_date_str]]

\* WHERE session_type = 'focus' AND completed = 1
completed_focus(conn) ==
    {i \in DOMAIN conn.sessions :
        conn.sessions[i].session_type = "focus" /\ conn.sessions[i].completed}

\* Mutant of get_today_session_count: the session_type is not tested.
get_today_session_count_of_any_type(conn, today) ==
    Cardinality({i \in DOMAIN conn.sessions :
        /\ conn.sessions[i].completed
        /\ date_prefix(conn.sessions[i].started_at) = date_prefix(today)})

\* get_today_session_count: ... AND started_at LIKE '<today>%'
get_today_session_count(conn, today) ==
    Cardinality({i \in completed_focus(conn) :
        date_prefix(conn.sessions[i].started_at) = date_prefix(today)})

RECURSIVE sum_duration_secs(_, _)
sum_duration_secs(conn, rows) ==
    IF rows = {}
    THEN 0
    ELSE LET i == CHOOSE j \in rows : TRUE
         IN conn.sessions[i].duration_secs + sum_duration_secs(conn, rows \ {i})

\* Mutant of get_total_stats: records equal in every column but the id are
\* counted once.
get_total_stats_distinct(conn) ==
    LET firsts == {i \in completed_focus(conn) :
                    \A j \in completed_focus(conn) :
                        j < i => [conn.sessions[j] EXCEPT !.id = 0]
                                    # [conn.sessions[i] EXCEPT !.id = 0]}
    IN <<Cardinality(firsts), sum_duration_secs(conn, firsts)>>

\* get_total_stats: COUNT(*), COALESCE(SUM(duration_secs), 0)
get_total_stats(conn) ==
    <<Cardinality(completed_focus(conn)),
      sum_duration_secs(conn, completed_focus(conn))>>

RECURSIVE group_by_day(_, _, _)
group_by_day(conn, lo, hi) ==
    IF lo > hi
    THEN << >>
    ELSE LET cnt == Cardinality({i \in completed_focus(conn) :
                        date_prefix(conn.sessions[i].started_at) = Some(lo)})
             tail == group_by_day(conn, lo + 1, hi)
         IN IF cnt > 0 THEN <<<<format_date(lo), cnt>>>> \o tail ELSE tail

\* Mutant of get_sessions_in_range: the end day is excluded.
get_sessions_in_range_before_end(conn, start_day, end_day) ==
    group_by_day(conn, start_day[2], end_day[2] - 1)

\* get_sessions_in_range(conn, start, end): GROUP BY day ORDER BY day
get_sessions_in_range(conn, start_day, end_day) ==
    group_by_day(conn, start_day[2], end_day[2])

(***************************************************************************)
(* State: the fields of App (main.rs), the value returned by the last      *)
(* Timer::tick, and what the last handler sent to the notification         *)
(* collaborator.  ticks and signals observe the Timer's calls since the    *)
(* last start.  call is the last direct call of a function of xp.rs or     *)
(* db.rs, as their unit tests make them; stderr holds what the last        *)
(* handler wrote with eprintln!.                                           *)
(***************************************************************************)
VARIABLES
    timer,              \* App.timer: [state, focus_sessions_completed]
    profile,            \* App.profile: UserProfile
    current_view,       \* App.current_view
    db,                 \* App.db: Option<Connection>
    session_start_time, \* App.session_start_time: Option<String>
    today_sessions,     \* App.today_sessions
    total_sessions,     \* App.total_sessions
    total_focus_secs,   \* App.total_focus_secs
    weekly_data,        \* App.weekly_data: Vec<(String, u32)>
    level_up,           \* App.level_up: Option<u32>
    finished,           \* the value returned by the last call of Timer::tick
    notifications,      \* the notifications sent by the last handler, in order
    ticks,              \* ticks delivered while Running since the last start or reset
    signals,            \* ticks that returned true since the last start
    call,               \* the last direct call of an xp.rs or db.rs function
    stderr              \* the lines the last handler wrote to stderr

timer_vars == <<timer, finished, ticks, signals>>
app_vars == <<profile, current_view, db, session_start_time, today_sessions,
              total_sessions, total_focus_secs, weekly_data, level_up,
              notifications, call, stderr>>
vars == <<timer, profile, current_view, db, session_start_time, today_sessions,
          total_sessions, total_focus_secs, weekly_data, level_up, finished,
          notifications, ticks, signals, call, stderr>>

\* No function of xp.rs has been called directly.
NoCall == [fn |-> "none", args |-> << >>, ret |-> << >>]

\* enum View
View == {"Timer", "Stats"}

(***************************************************************************)
(* The Timer driven directly through its public methods, in any order, as  *)
(* the unit tests of timer.rs drive it.                                    *)
(***************************************************************************)
\* timer.start(session_type)
TimerStart(session_type) ==
    /\ timer' = start(timer, session_type)
    /\ ticks' = 0
    /\ signals' = 0
    /\ UNCHANGED finished

\* let finished = timer.tick()
TimerTick ==
    /\ timer' = tick(timer).timer
    /\ finished' = tick(timer).ret
    /\ ticks' = IF is_running(timer) THEN ticks + 1 ELSE ticks
    /\ signals' = IF tick(timer).ret THEN signals + 1 ELSE signals

\* timer.pause()
TimerPause ==
    /\ timer' = pause(timer)
    /\ UNCHANGED <<finished, ticks, signals>>

\* timer.resume()
TimerResume ==
    /\ timer' = resume(timer)
    /\ UNCHANGED <<finished, ticks, signals>>

\* timer.reset()
TimerReset ==
    /\ timer' = reset(timer)
    /\ ticks' = 0
    /\ UNCHANGED <<finished, signals>>

(***************************************************************************)
(* main.rs: App::default.  The store is a new file or cannot be opened.    *)
(***************************************************************************)
AppDefault ==
    /\ timer = Timer_new
    /\ profile = IF db = None THEN UserProfile_default ELSE get_profile(db[1])
    /\ current_view = "Timer"
    /\ session_start_time = None
    /\ today_sessions = IF db = None THEN 0
                        ELSE get_today_session_count(db[1], format_date(0))
    /\ total_sessions = IF db = None THEN 0 ELSE get_total_stats(db[1])[1]
    /\ total_focus_secs = IF db = None THEN 0 ELSE get_total_stats(db[1])[2]
    /\ weekly_data = << >>
    /\ level_up = None
    /\ finished = FALSE
    /\ notifications = << >>
    /\ ticks = 0
    /\ signals = 0
    /\ call = NoCall
    /\ stderr = << >>

Init ==
    /\ db \in {None, Some(init_db)}
    /\ AppDefault

\* The Timer alone: App's other fields stay as a failed store leaves them.
InitTimer == Init /\ db = None

NextTimer ==
    \/ /\ \E session_type \in SessionType :
            /\ session_type = Focus =>
                    timer.focus_sessions_completed < MaxCompleted
            /\ TimerStart(session_type)
       /\ UNCHANGED app_vars
    \/ TimerTick /\ UNCHANGED app_vars
    \/ TimerPause /\ UNCHANGED app_vars
    \/ TimerResume /\ UNCHANGED app_vars
    \/ TimerReset /\ UNCHANGED app_vars

SpecTimer == InitTimer /\ [][NextTimer]_vars

(***************************************************************************)
(* main.rs: on_session_complete.                                           *)
(***************************************************************************)
\* Mutant of award_focus: the XP is computed from the streak before its update.
award_focus_pre_update(p, today) ==
    LET new_streak == update_streak(p.last_session_date, today, p.current_streak)
        xp == calculate_xp(p.current_streak)
        p1 == [p EXCEPT
                 !.current_streak = new_streak,
                 !.longest_streak =
                    IF new_streak > p.longest_streak THEN new_streak ELSE @,
                 !.last_session_date = Some(today)]
        p2 == [p1 EXCEPT !.total_xp = @ + xp]
    IN [p2 EXCEPT !.level = calculate_level(p2.total_xp)]

\* Mutant of award_focus: the longest streak is set to the current one.
award_focus_longest_follows_current(p, today) ==
    LET new_streak == update_streak(p.last_session_date, today, p.current_streak)
        p1 == [p EXCEPT
                 !.current_streak = new_streak,
                 !.longest_streak = new_streak,
                 !.last_session_date = Some(today)]
        xp == calculate_xp(p1.current_streak)
        p2 == [p1 EXCEPT !.total_xp = @ + xp]
    IN [p2 EXCEPT !.level = calculate_level(p2.total_xp)]

\* Mutant of award_focus: the level is computed before the XP is added.
award_focus_level_before_xp(p, today) ==
    LET new_streak == update_streak(p.last_session_date, today, p.current_streak)
        p1 == [p EXCEPT
                 !.current_streak = new_streak,
                 !.longest_streak =
                    IF new_streak > p.longest_streak THEN new_streak ELSE @,
                 !.last_session_date = Some(today)]
        xp == calculate_xp(p1.current_streak)
        p2 == [p1 EXCEPT !.level = calculate_level(p1.total_xp)]
    IN [p2 EXCEPT !.total_xp = @ + xp]

\* Lines 197-210: the streak, date, XP and level update of a Focus completion.
award_focus(p, today) ==
    LET new_streak == update_streak(p.last_session_date, today, p.current_streak)
        p1 == [p EXCEPT
                 !.current_streak = new_streak,
                 !.longest_streak =
                    IF new_streak > p.longest_streak THEN new_streak ELSE @,
                 !.last_session_date = Some(today)]
        xp == calculate_xp(p1.current_streak)
        p2 == [p1 EXCEPT !.total_xp = @ + xp]
    IN [p2 EXCEPT !.level = calculate_level(p2.total_xp)]

\* Mutant of complete_profile: every completed session is awarded.
complete_profile_any_session(p, session_type, today) == award_focus(p, today)

\* Lines 196-212: only a Focus session touches the profile.
complete_profile(p, session_type, today) ==
    IF session_type = Focus THEN award_focus(p, today) ELSE p

\* Line 208: the XP a Focus completion earns.
xp_earned_focus(p, today) == calculate_xp(award_focus(p, today).current_streak)

\* Mutant of level_up_raised: every Focus completion that loses no level
\* raises the event.
level_up_raised_without_gain(session_type, old_level, new_level) ==
    session_type = Focus /\ new_level >= old_level

\* Lines 196 and 213: within the Focus branch, `if app.profile.level > old_level`.
level_up_raised(session_type, old_level, new_level) ==
    session_type = Focus /\ new_level > old_level

\* notifications.rs: the event handed to the desktop, and the line eprintln!
\* writes when the desktop does not show it.
LEVEL_UP_NOT_SENT == "Failed to send level-up notification"
NOT_SENT == "Failed to send notification"
show_failed(shown, line) == IF shown THEN << >> ELSE <<line>>
notify_level_up(new_level, stage) ==
    [event |-> "level_up", level |-> new_level, stage |-> stage]
notify_session_complete(session_type, xp_earned) ==
    [event |-> "session_complete", session_type |-> session_type,
     xp_earned |-> xp_earned]

\* Mutant of on_session_complete: a profile the store rejects is not kept in
\* memory either.
on_session_complete_keeps_rejected_profile(t, now, save_ok, update_ok) ==
    LET o == current_session_type(t)
        session_type == IF o = None THEN Focus ELSE o[1]
        today == now
        completed_at == format_timestamp(now)
        old_level == profile.level
        new_profile == complete_profile(profile, session_type, today)
        xp_earned == IF session_type = Focus
                     THEN Some(xp_earned_focus(profile, today))
                     ELSE None
        levelled == level_up_raised(session_type, old_level, new_profile.level)
        session == [id |-> None,
                    started_at |-> IF session_start_time = None
                                   THEN EmptyString
                                   ELSE session_start_time[1],
                    completed_at |-> Some(completed_at),
                    duration_secs |-> total_duration_secs(t),
                    session_type |-> session_type,
                    completed |-> TRUE]
    IN /\ profile' = IF db # None /\ ~update_ok THEN profile ELSE new_profile
       /\ level_up' = IF levelled THEN Some(new_profile.level) ELSE level_up
       /\ today_sessions' =
            IF session_type = Focus THEN today_sessions + 1 ELSE today_sessions
       /\ total_sessions' =
            IF session_type = Focus THEN total_sessions + 1 ELSE total_sessions
       /\ total_focus_secs' =
            IF session_type = Focus
            THEN total_focus_secs + FOCUS_DURATION_SECS
            ELSE total_focus_secs
       /\ db' = IF db = None
                THEN None
                ELSE LET c1 == IF save_ok THEN save_session(db[1], session)
                               ELSE db[1]
                         c2 == IF update_ok THEN update_profile(c1, new_profile)
                               ELSE c1
                     IN Some(c2)
       /\ session_start_time' = None
       /\ notifications' =
            (IF levelled
             THEN <<notify_level_up(new_profile.level,
                                    ferris_stage(new_profile.level))>>
             ELSE << >>)
            \o <<notify_session_complete(session_type, xp_earned)>>
       /\ \E level_up_shown \in BOOLEAN, complete_shown \in BOOLEAN :
            /\ ~levelled => level_up_shown
            /\ stderr' = show_failed(level_up_shown, LEVEL_UP_NOT_SENT)
                         \o show_failed(complete_shown, NOT_SENT)
       /\ UNCHANGED <<current_view, weekly_data>>

\* on_session_complete(app), the timer being t; now is Local::now()'s date,
\* save_ok and update_ok tell whether the store accepts the two writes, whose
\* Results are dropped (`let _ =`); each notification is shown or not.
on_session_complete(t, now, save_ok, update_ok) ==
    LET o == current_session_type(t)
        session_type == IF o = None THEN Focus ELSE o[1]
        today == now
        completed_at == format_timestamp(now)
        old_level == profile.level
        new_profile == complete_profile(profile, session_type, today)
        xp_earned == IF session_type = Focus
                     THEN Some(xp_earned_focus(profile, today))
                     ELSE None
        levelled == level_up_raised(session_type, old_level, new_profile.level)
        session == [id |-> None,
                    started_at |-> IF session_start_time = None
                                   THEN EmptyString
                                   ELSE session_start_time[1],
                    completed_at |-> Some(completed_at),
                    duration_secs |-> total_duration_secs(t),
                    session_type |-> session_type,
                    completed |-> TRUE]
    IN /\ profile' = new_profile
       /\ level_up' = IF levelled THEN Some(new_profile.level) ELSE level_up
       /\ today_sessions' =
            IF session_type = Focus THEN today_sessions + 1 ELSE today_sessions
       /\ total_sessions' =
            IF session_type = Focus THEN total_sessions + 1 ELSE total_sessions
       /\ total_focus_secs' =
            IF session_type = Focus
            THEN total_focus_secs + FOCUS_DURATION_SECS
            ELSE total_focus_secs
       /\ db' = IF db = None
                THEN None
                ELSE LET c1 == IF save_ok THEN save_session(db[1], session)
                               ELSE db[1]
                         c2 == IF update_ok THEN update_profile(c1, new_profile)
                               ELSE c1
                     IN Some(c2)
       /\ session_start_time' = None
       /\ notifications' =
            (IF levelled
             THEN <<notify_level_up(new_profile.level,
                                    ferris_stage(new_profile.level))>>
             ELSE << >>)
            \o <<notify_session_complete(session_type, xp_earned)>>
       /\ \E level_up_shown \in BOOLEAN, complete_shown \in BOOLEAN :
            /\ ~levelled => level_up_shown
            /\ stderr' = show_failed(level_up_shown, LEVEL_UP_NOT_SENT)
                         \o show_failed(complete_shown, NOT_SENT)
       /\ UNCHANGED <<current_view, weekly_data>>

\* refresh_stats(app); each *_ok tells whether that query succeeds.
refresh_stats(now, count_ok, stats_ok, range_ok, profile_ok) ==
    IF db = None
    THEN UNCHANGED <<today_sessions, total_sessions, total_focus_secs,
                     weekly_data, profile>>
    ELSE LET conn == db[1]
             today == format_date(now)
             stats == IF stats_ok THEN get_total_stats(conn) ELSE <<0, 0>>
             week_start == format_date(now - 6)
         IN /\ today_sessions' =
                 IF count_ok THEN get_today_session_count(conn, today) ELSE 0
            /\ total_sessions' = stats[1]
            /\ total_focus_secs' = stats[2]
            /\ weekly_data' =
                 IF range_ok
                 THEN get_sessions_in_range(conn, week_start, today)
                 ELSE << >>
            /\ profile' = IF profile_ok THEN get_profile(conn) ELSE profile

(***************************************************************************)
(* main.rs: update, one action per Message.  Minimize, Close, DragStart    *)
(* and WindowReady only hand the window id to the window system.           *)
(***************************************************************************)
\* Message::Tick
Tick(now, save_ok, update_ok) ==
    /\ TimerTick
    /\ UNCHANGED call
    /\ IF tick(timer).ret
       THEN on_session_complete(tick(timer).timer, now, save_ok, update_ok)
       ELSE /\ notifications' = << >>
            /\ stderr' = << >>
            /\ UNCHANGED <<profile, current_view, db, session_start_time,
                           today_sessions, total_sessions, total_focus_secs,
                           weekly_data, level_up>>

\* Mutant of Start: the start time is not recorded.
Start_without_start_time(now) ==
    /\ LET session_type == IF is_finished(timer)
                           THEN next_session_type(timer)
                           ELSE Focus
       IN TimerStart(session_type)
    /\ notifications' = << >>
    /\ stderr' = << >>
    /\ UNCHANGED call
    /\ UNCHANGED <<profile, current_view, db, session_start_time,
                   today_sessions, total_sessions, total_focus_secs,
                   weekly_data, level_up>>

\* Message::Start
Start(now) ==
    /\ LET session_type == IF is_finished(timer)
                           THEN next_session_type(timer)
                           ELSE Focus
       IN TimerStart(session_type)
    /\ session_start_time' = Some(format_timestamp(now))
    /\ notifications' = << >>
    /\ stderr' = << >>
    /\ UNCHANGED call
    /\ UNCHANGED <<profile, current_view, db, today_sessions, total_sessions,
                   total_focus_secs, weekly_data, level_up>>

\* Message::PauseResume
PauseResume ==
    /\ IF is_running(timer)
       THEN TimerPause
       ELSE IF is_paused(timer)
            THEN TimerResume
            ELSE UNCHANGED timer_vars
    /\ notifications' = << >>
    /\ stderr' = << >>
    /\ UNCHANGED call
    /\ UNCHANGED <<profile, current_view, db, session_start_time,
                   today_sessions, total_sessions, total_focus_secs,
                   weekly_data, level_up>>

\* Mutant of Skip: the abandoned session is stored as an uncompleted row.
Skip_records_abandoned ==
    /\ IF is_running(timer) \/ is_paused(timer)
       THEN /\ TimerReset
            /\ session_start_time' = None
            /\ db' = IF db = None
                     THEN None
                     ELSE Some(save_session(db[1],
                            [id |-> None,
                             started_at |-> IF session_start_time = None
                                            THEN EmptyString
                                            ELSE session_start_time[1],
                             completed_at |-> None,
                             duration_secs |-> total_duration_secs(timer),
                             session_type |-> timer.state.session_type,
                             completed |-> FALSE]))
       ELSE UNCHANGED <<timer_vars, session_start_time, db>>
    /\ notifications' = << >>
    /\ stderr' = << >>
    /\ UNCHANGED call
    /\ UNCHANGED <<profile, current_view, today_sessions, total_sessions,
                   total_focus_secs, weekly_data, level_up>>

\* Message::Skip
Skip ==
    /\ IF is_running(timer) \/ is_paused(timer)
       THEN /\ TimerReset
            /\ session_start_time' = None
       ELSE UNCHANGED <<timer_vars, session_start_time>>
    /\ notifications' = << >>
    /\ stderr' = << >>
    /\ UNCHANGED call
    /\ UNCHANGED <<profile, current_view, db, today_sessions, total_sessions,
                   total_focus_secs, weekly_data, level_up>>

\* Message::SwitchView(v)
SwitchView(v, now, count_ok, stats_ok, range_ok, profile_ok) ==
    /\ current_view' = v
    /\ IF v = "Stats"
       THEN refresh_stats(now, count_ok, stats_ok, range_ok, profile_ok)
       ELSE UNCHANGED <<today_sessions, total_sessions, total_focus_secs,
                        weekly_data, profile>>
    /\ notifications' = << >>
    /\ stderr' = << >>
    /\ UNCHANGED call
    /\ UNCHANGED <<timer_vars, db, session_start_time, level_up>>

\* Message::DismissLevelUp
DismissLevelUp ==
    /\ level_up' = None
    /\ notifications' = << >>
    /\ stderr' = << >>
    /\ UNCHANGED call
    /\ UNCHANGED <<timer_vars, profile, current_view, db, session_start_time,
                   today_sessions, total_sessions, total_focus_secs,
                   weekly_data>>

\* The Focus session that Message::Start would begin stays within cap.
StartWithin(cap) ==
    (~is_finished(timer) \/ next_session_type(timer) = Focus)
        => timer.focus_sessions_completed < cap

(***************************************************************************)
(* The application: every message, with any date and any store failure.    *)
(***************************************************************************)
Days == 0..MaxDay

\* A tick that does not finish the session reads neither the clock nor the
\* store, and a view switch reads them only for the Stats view with a store:
\* the inputs a handler does not read are not enumerated.  A refresh finds
\* the three statistics queries answered or not, and the profile query
\* answered or not.
Next ==
    \/ /\ ~tick(timer).ret
       /\ Tick(0, TRUE, TRUE)
    \/ /\ tick(timer).ret
       /\ \E now \in Days, save_ok \in BOOLEAN, update_ok \in BOOLEAN :
            /\ db = None => (save_ok /\ update_ok)
            /\ Tick(now, save_ok, update_ok)
    \/ \E now \in Days : StartWithin(MaxFocus) /\ Start(now)
    \/ PauseResume
    \/ Skip
    \/ SwitchView("Timer", 0, TRUE, TRUE, TRUE, TRUE)
    \/ /\ db = None
       /\ SwitchView("Stats", 0, TRUE, TRUE, TRUE, TRUE)
    \/ /\ db # None
       /\ \E now \in Days, queries_ok \in BOOLEAN, profile_ok \in BOOLEAN :
            SwitchView("Stats", now, queries_ok, queries_ok, queries_ok,
                       profile_ok)
    \/ DismissLevelUp

Spec == Init /\ [][Next]_vars

(***************************************************************************)
(* The application end to end without a store (init_db failed): sessions   *)
(* are started, paused, skipped and completed on any dates.                *)
(***************************************************************************)
E2EDays == 0..E2EDay

InitE2E == Init /\ db = None

NextE2E ==
    \/ /\ ~tick(timer).ret
       /\ Tick(0, TRUE, TRUE)
    \/ /\ tick(timer).ret
       /\ \E now \in E2EDays : Tick(now, TRUE, TRUE)
    \/ \E now \in E2EDays : StartWithin(E2EFocus) /\ Start(now)
    \/ PauseResume
    \/ Skip

SpecE2E == InitE2E /\ [][NextE2E]_vars

(***************************************************************************)
(* The application without a store under its scheduling: subscription      *)
(* delivers Message::Tick every second for as long as the timer is         *)
(* Running, and a user who pauses a session comes back to resume it.  A    *)
(* session in progress is neither skipped nor restarted: Message::Start    *)
(* arrives on an Idle or Finished timer only, and Message::Skip does not   *)
(* arrive.  A tick already in flight may still arrive in any state.        *)
(***************************************************************************)
LiveDays == 0..LiveDay

InitLive == Init /\ db = None

\* time::every(1 s).map(|_| Message::Tick), subscribed while is_running().
LiveTick ==
    /\ is_running(timer)
    /\ \E now \in LiveDays : Tick(now, TRUE, TRUE)

\* Message::PauseResume on a Paused timer.
LiveResume ==
    /\ is_paused(timer)
    /\ PauseResume

\* Message::Start when no session is in progress.
LiveStart ==
    /\ ~(is_running(timer) \/ is_paused(timer))
    /\ StartWithin(LiveFocus)
    /\ \E now \in LiveDays : Start(now)

NextLive ==
    \/ /\ ~tick(timer).ret
       /\ Tick(0, TRUE, TRUE)
    \/ /\ tick(timer).ret
       /\ \E now \in LiveDays : Tick(now, TRUE, TRUE)
    \/ LiveStart
    \/ PauseResume

SpecLive ==
    /\ InitLive
    /\ [][NextLive]_vars
    /\ SF_vars(LiveTick)
    /\ WF_vars(LiveResume)

(***************************************************************************)
(* xp.rs called directly with any arguments, as its unit tests call it:    *)
(* dates within FnDay days, streaks up to FnStreak and that far beyond the *)
(* largest streak whose bonus fits a u32, XP totals up to FnXp and powers  *)
(* of two, levels from 1 to FnLevel and powers of two.  The application    *)
(* stays as App::default leaves it.                                        *)
(***************************************************************************)
FnDays == 0..FnDay
\* u32::MAX / STREAK_BONUS_PER_DAY = (2^32 - 1) / 10 = (2^31 - 1) / 5
LargestStreakInRange == ((2^30 - 1) * 2 + 1) \div 5
FnStreaks ==
    (0..FnStreak) \cup {LargestStreakInRange + k : k \in 0..FnStreak}
FnXps == (0..FnXp) \cup {2^e : e \in 11..30}
FnLevels == (1..FnLevel) \cup {2^e : e \in 4..30}

app_state == <<timer, profile, current_view, db, session_start_time,
               today_sessions, total_sessions, total_focus_secs, weekly_data,
               level_up, finished, notifications, ticks, signals, stderr>>

\* update_streak(last_session_date, today, current_streak)
CallUpdateStreak(last_session_date, today, current_streak) ==
    /\ call' = [fn |-> "update_streak",
                args |-> <<last_session_date, today, current_streak>>,
                ret |-> update_streak(last_session_date, today, current_streak)]
    /\ UNCHANGED app_state

\* calculate_xp(current_streak), in a build with or without overflow checks
CallCalculateXp(current_streak, overflow_checks) ==
    /\ call' = [fn |-> "calculate_xp",
                args |-> <<current_streak>>,
                ret |-> calculate_xp_call(current_streak, overflow_checks)]
    /\ UNCHANGED app_state

\* calculate_level(total_xp)
CallCalculateLevel(total_xp) ==
    /\ call' = [fn |-> "calculate_level",
                args |-> <<total_xp>>,
                ret |-> calculate_level(total_xp)]
    /\ UNCHANGED app_state

\* level_progress(total_xp)
CallLevelProgress(total_xp) ==
    /\ call' = [fn |-> "level_progress",
                args |-> <<total_xp>>,
                ret |-> level_progress(total_xp)]
    /\ UNCHANGED app_state

\* ferris_stage(level)
CallFerrisStage(level) ==
    /\ call' = [fn |-> "ferris_stage",
                args |-> <<level>>,
                ret |-> ferris_stage(level)]
    /\ UNCHANGED app_state

InitXp == Init /\ db = None

NextXp ==
    \/ \E last_session_date \in {None} \cup {Some(d) : d \in FnDays},
          today \in FnDays, current_streak \in 0..FnStreak :
            CallUpdateStreak(last_session_date, today, current_streak)
    \/ \E current_streak \in FnStreaks, overflow_checks \in BOOLEAN :
            CallCalculateXp(current_streak, overflow_checks)
    \/ \E total_xp \in FnXps : CallCalculateLevel(total_xp)
    \/ \E total_xp \in FnXps : CallLevelProgress(total_xp)
    \/ \E level \in FnLevels : CallFerrisStage(level)

SpecXp == InitXp /\ [][NextXp]_vars

(***************************************************************************)
(* db.rs: the profile row read and written directly, as                    *)
(* test_profile_roundtrip does, on a store file an earlier run or another  *)
(* program has left: any counters, and a last_session_date that is NULL, a *)
(* date, or a text that is not a date.                                     *)
(***************************************************************************)
RowDays == 0..RowDay
RowStreaks == 0..RowStreak
RowXps == {0, BASE_XP + STREAK_BONUS_PER_DAY, XP_PER_LEVEL}
RowLevels == {calculate_level(0), calculate_level(XP_PER_LEVEL)}
NOT_A_DATE == "not a date"
UnparsableDates ==
    {EmptyString, <<NOT_A_DATE>>} \cup {format_timestamp(d) : d \in RowDays}
StoredRows ==
    [total_xp : RowXps, level : RowLevels, current_streak : RowStreaks,
     longest_streak : RowStreaks,
     last_session_date :
        {None} \cup {Some(format_date(d)) : d \in RowDays}
               \cup {Some(text) : text \in UnparsableDates}]
ProfileInputs ==
    [total_xp : RowXps, level : RowLevels, current_streak : RowStreaks,
     longest_streak : RowStreaks,
     last_session_date : {None} \cup {Some(d) : d \in RowDays}]

app_state_but_db == <<timer, profile, current_view, session_start_time,
                      today_sessions, total_sessions, total_focus_secs,
                      weekly_data, level_up, finished, notifications, ticks,
                      signals, stderr>>

\* The application's own fields while db.rs is called directly: those of
\* App::default without a store.
AppIdle ==
    /\ timer = Timer_new
    /\ profile = UserProfile_default
    /\ current_view = "Timer"
    /\ session_start_time = None
    /\ today_sessions = 0
    /\ total_sessions = 0
    /\ total_focus_secs = 0
    /\ weekly_data = << >>
    /\ level_up = None
    /\ finished = FALSE
    /\ notifications = << >>
    /\ ticks = 0
    /\ signals = 0
    /\ call = NoCall
    /\ stderr = << >>

\* get_profile(&conn)
RowGetProfile ==
    /\ call' = [fn |-> "get_profile", args |-> << >>,
                ret |-> get_profile(db[1])]
    /\ UNCHANGED app_state

\* update_profile(&conn, &profile)
RowUpdateProfile(p) ==
    /\ db' = Some(update_profile(db[1], p))
    /\ call' = [fn |-> "update_profile", args |-> <<p>>, ret |-> << >>]
    /\ UNCHANGED app_state_but_db

InitRow ==
    /\ db \in {Some([init_db EXCEPT !.user_profile = row]) : row \in StoredRows}
    /\ AppIdle

NextRow ==
    \/ RowGetProfile
    \/ \E p \in ProfileInputs : RowUpdateProfile(p)

SpecRow == InitRow /\ [][NextRow]_vars

(***************************************************************************)
(* db.rs: the sessions table written and queried directly, as              *)
(* test_init_and_save and test_total_stats do, starting from the empty     *)
(* tables: up to LedgerRows records of any type, completed or not, started *)
(* on any day or with the empty start text.                                *)
(***************************************************************************)
LedgerDays == 0..LedgerDay
SessionInputs ==
    {[id |-> None,
      started_at |-> started_at,
      completed_at |-> IF completed THEN Some(started_at) ELSE None,
      duration_secs |-> duration(session_type),
      session_type |-> session_type,
      completed |-> completed] :
        started_at \in {format_timestamp(d) : d \in LedgerDays}
                            \cup {EmptyString},
        session_type \in SessionType,
        completed \in BOOLEAN}

\* save_session(&conn, &session)
LedgerSaveSession(session) ==
    /\ Len(db[1].sessions) < LedgerRows
    /\ db' = Some(save_session(db[1], session))
    /\ call' = [fn |-> "save_session", args |-> <<session>>, ret |-> << >>]
    /\ UNCHANGED app_state_but_db

\* get_today_session_count(&conn, today)
LedgerTodaySessionCount(today) ==
    /\ call' = [fn |-> "get_today_session_count", args |-> <<today>>,
                ret |-> get_today_session_count(db[1], today)]
    /\ UNCHANGED app_state

\* get_total_stats(&conn)
LedgerTotalStats ==
    /\ call' = [fn |-> "get_total_stats", args |-> << >>,
                ret |-> get_total_stats(db[1])]
    /\ UNCHANGED app_state

\* get_sessions_in_range(&conn, start, end)
LedgerSessionsInRange(start_day, end_day) ==
    /\ call' = [fn |-> "get_sessions_in_range", args |-> <<start_day, end_day>>,
                ret |-> get_sessions_in_range(db[1], start_day, end_day)]
    /\ UNCHANGED app_state

InitLedger ==
    /\ db = Some(init_db)
    /\ AppIdle

NextLedger ==
    \/ \E session \in SessionInputs : LedgerSaveSession(session)
    \/ \E d \in LedgerDays : LedgerTodaySessionCount(format_date(d))
    \/ LedgerTotalStats
    \/ \E d1 \in LedgerDays, d2 \in LedgerDays :
            LedgerSessionsInRange(format_date(d1), format_date(d2))

SpecLedger == InitLedger /\ [][NextLedger]_vars

(***************************************************************************)
(* Verification.                                                           *)
(***************************************************************************)
\* The durations the specification states for each session type.
StatedDuration(T) ==
    CASE T = Focus -> 1500
      [] T = ShortBreak -> 300
      [] T = LongBreak -> 900

\* A step in which a Running session of type T finishes by countdown.
Completes(T) ==
    /\ is_running(timer)
    /\ timer.state.session_type = T
    /\ is_finished(timer')

\* The XP reported by the session-complete notification of the last handler.
ReportedXp(n) == n[Len(n)].xp_earned

Profile(xp, lvl, streak, longest, last) ==
    [total_xp |-> xp, level |-> lvl, current_streak |-> streak,
     longest_streak |-> longest, last_session_date |-> last]

\* C1: after start(T), of the ticks delivered while the timer is Running, the
\* first duration(T)-1 each return false and leave the timer Running on the
\* same session, and the duration(T)-th returns true and leaves the timer in
\* Finished{T}; that tick adds exactly 1 to focus_sessions_completed when T
\* is Focus (and nothing otherwise).
C1_FinishesOnLastTick ==
    [][(TimerTick /\ is_running(timer)) =>
        LET T == timer.state.session_type
        IN IF ticks' < StatedDuration(T)
           THEN /\ finished' = FALSE
                /\ is_running(timer')
                /\ timer'.state.session_type = T
                /\ timer'.focus_sessions_completed
                        = timer.focus_sessions_completed
           ELSE /\ ticks' = StatedDuration(T)
                /\ finished' = TRUE
                /\ timer'.state = Finished(T)
                /\ timer'.focus_sessions_completed
                        = timer.focus_sessions_completed
                          + (IF T = Focus THEN 1 ELSE 0)]_vars

\* C1 witness: the 1500th tick of a Focus session has just returned true.
C1_Witness ==
    /\ timer.state = Finished(Focus)
    /\ finished = TRUE
    /\ ticks = 1500
    /\ timer.focus_sessions_completed = 1

\* C2: between two consecutive start() calls tick() returns true at most
\* once, whatever ticks, pauses, resumes and resets are interleaved; and a tick
\* delivered to a Finished timer returns false and changes nothing.
C2_FinishedSignalOnce ==
    /\ [](signals <= 1)
    /\ [][(TimerTick /\ is_finished(timer)) =>
            (finished' = FALSE /\ timer' = timer /\ signals' = signals)]_vars

\* C2 witness: the session has finished, and a later tick returned false.
C2_Witness ==
    /\ is_finished(timer)
    /\ signals = 1
    /\ finished = FALSE

\* C3 as stated: from the default profile, a Focus completion on day D awards
\* 100 XP (streak 1, level 1), a second on day D+1 awards 110 XP (streak 2,
\* total_xp 210, level 1), a third on day D+3 resets the streak to 1 and
\* awards 100 XP.
C3_AsStated ==
    [][Completes(Focus) =>
        /\ profile = UserProfile_default =>
            /\ profile'.total_xp = 100
            /\ ReportedXp(notifications') = Some(100)
            /\ profile'.current_streak = 1
            /\ profile'.level = 1
        /\ \A D \in E2EDays :
            /\ (/\ profile = Profile(100, 1, 1, 1, Some(D))
                /\ profile'.last_session_date = Some(D + 1)) =>
                    /\ profile'.total_xp = 210
                    /\ ReportedXp(notifications') = Some(110)
                    /\ profile'.current_streak = 2
                    /\ profile'.level = 1
            /\ (/\ profile = Profile(210, 1, 2, 2, Some(D + 1))
                /\ profile'.last_session_date = Some(D + 3)) =>
                    /\ profile'.current_streak = 1
                    /\ ReportedXp(notifications') = Some(100)
                    /\ profile'.total_xp = 310]_vars

\* C3 amended: from the default profile, a Focus completion on day D awards
\* 110 XP (streak 1, level 1), a second on day D+1 awards 120 XP (streak 2,
\* total_xp 230, level 1), a third on day D+3 resets the streak to 1 and
\* awards 110 XP (total_xp 340).
C3_EndToEnd ==
    [][Completes(Focus) =>
        /\ profile = UserProfile_default =>
            /\ profile'.total_xp = 110
            /\ ReportedXp(notifications') = Some(110)
            /\ profile'.current_streak = 1
            /\ profile'.level = 1
        /\ \A D \in E2EDays :
            /\ (/\ profile = Profile(110, 1, 1, 1, Some(D))
                /\ profile'.last_session_date = Some(D + 1)) =>
                    /\ profile'.total_xp = 230
                    /\ ReportedXp(notifications') = Some(120)
                    /\ profile'.current_streak = 2
                    /\ profile'.level = 1
            /\ (/\ profile = Profile(230, 1, 2, 2, Some(D + 1))
                /\ profile'.last_session_date = Some(D + 3)) =>
                    /\ profile'.current_streak = 1
                    /\ ReportedXp(notifications') = Some(110)
                    /\ profile'.total_xp = 340]_vars

\* C3 witness: the third Focus session has just completed on day 3, after
\* completions on days 0 and 1.
C3_Witness ==
    /\ timer.state = Finished(Focus)
    /\ finished = TRUE
    /\ timer.focus_sessions_completed = 3
    /\ profile = Profile(340, 1, 1, 2, Some(3))

\* C4: on every Focus completion, for the date today of the completion,
\* current_streak becomes update_streak(old last_session_date, today, old
\* current_streak), last_session_date becomes today, and total_xp grows by
\* exactly calculate_xp of the new current_streak.
C4_XpFromUpdatedStreak ==
    [][Completes(Focus) =>
        \E today \in E2EDays :
            /\ profile'.last_session_date = Some(today)
            /\ profile'.current_streak =
                    update_streak(profile.last_session_date, today,
                                  profile.current_streak)
            /\ profile'.total_xp =
                    profile.total_xp + calculate_xp(profile'.current_streak)
            /\ ReportedXp(notifications')
                    = Some(calculate_xp(profile'.current_streak))]_vars

\* C4 witness: a Focus completion has just continued a streak from 1 to 2,
\* and earned calculate_xp(2) = 120 rather than calculate_xp(1) = 110.
C4_Witness ==
    /\ timer.state = Finished(Focus)
    /\ finished = TRUE
    /\ profile.current_streak = 2
    /\ profile.total_xp = 230
    /\ ReportedXp(notifications) = Some(120)

\* C5: a ShortBreak or LongBreak completion leaves every field of the
\* in-memory profile unchanged, awards no XP, raises no level-up event, and
\* changes neither focus_sessions_completed nor the focus-session counters.
C5_BreaksTouchNothing ==
    [][(Completes(ShortBreak) \/ Completes(LongBreak)) =>
        /\ profile' = profile
        /\ level_up' = level_up
        /\ notifications' =
                <<notify_session_complete(timer.state.session_type, None)>>
        /\ timer'.focus_sessions_completed = timer.focus_sessions_completed
        /\ today_sessions' = today_sessions
        /\ total_sessions' = total_sessions
        /\ total_focus_secs' = total_focus_secs]_vars

\* C5 witness: a LongBreak has just completed after four Focus sessions.
C5_Witness ==
    /\ timer.state = Finished(LongBreak)
    /\ finished = TRUE
    /\ timer.focus_sessions_completed = 4
    /\ profile.total_xp > 0
    /\ Len(notifications) = 1

\* C6: next_session_type() returns, from Finished{Focus}, LongBreak if
\* focus_sessions_completed > 0 and focus_sessions_completed % 4 = 0 and
\* ShortBreak otherwise; from Finished{ShortBreak} or Finished{LongBreak},
\* Focus; from Idle, Running or Paused, Focus.
C6_NextSessionType ==
    LET n == timer.focus_sessions_completed
    IN next_session_type(timer) =
        IF timer.state = Finished(Focus)
        THEN IF n > 0 /\ n % 4 = 0 THEN LongBreak ELSE ShortBreak
        ELSE Focus

\* C6 witness: the fourth Focus session has finished and a LongBreak is next.
C6_Witness ==
    /\ timer.state = Finished(Focus)
    /\ timer.focus_sessions_completed = 4
    /\ next_session_type(timer) = LongBreak

\* C7: from any Running state pause() gives Paused with the same
\* remaining_secs and session_type, and resume() then gives back exactly the
\* Running state (same remaining_secs, session_type and remaining_display),
\* focus_sessions_completed unchanged throughout.
C7_PauseResumeRoundTrip ==
    /\ [](is_running(timer) =>
            /\ pause(timer).state =
                    Paused(timer.state.remaining_secs, timer.state.session_type)
            /\ resume(pause(timer)) = timer
            /\ remaining_display(resume(pause(timer))) = remaining_display(timer))
    /\ [][(TimerPause /\ is_running(timer)) =>
            /\ timer'.state =
                    Paused(timer.state.remaining_secs, timer.state.session_type)
            /\ timer'.focus_sessions_completed
                    = timer.focus_sessions_completed]_vars
    /\ [][(TimerResume /\ is_paused(timer)) =>
            /\ timer'.state =
                    Running(timer.state.remaining_secs, timer.state.session_type)
            /\ remaining_display(timer') = remaining_display(timer)
            /\ timer'.focus_sessions_completed
                    = timer.focus_sessions_completed]_vars

\* C7 witness: a Focus session paused at 24:59, as in test_pause_resume.
C7_Witness ==
    /\ timer.state = Paused(1499, Focus)
    /\ remaining_display(timer) = <<24, 59>>

\* C8: pause() in any state other than Running, resume() in any state other
\* than Paused and tick() in any state other than Running leave the timer
\* state and focus_sessions_completed unchanged, and that tick() returns
\* false.
C8_OutOfOrderNoOps ==
    /\ [][(TimerPause /\ ~is_running(timer)) => timer' = timer]_vars
    /\ [][(TimerResume /\ ~is_paused(timer)) => timer' = timer]_vars
    /\ [][(TimerTick /\ ~is_running(timer)) =>
            (timer' = timer /\ finished' = FALSE)]_vars
    /\ [](/\ ~is_running(timer) => pause(timer) = timer
          /\ ~is_paused(timer) => resume(timer) = timer
          /\ ~is_running(timer) =>
                tick(timer) = [timer |-> timer, ret |-> FALSE])

\* C8 witness: an Idle timer, reset after its session finished, that a tick
\* has reached since (the last tick returned false) and left Idle.
C8_Witness ==
    /\ timer.state = Idle
    /\ signals = 1
    /\ finished = FALSE
    /\ timer.focus_sessions_completed = 2

\* C9: start(T) from any state gives Running{remaining_secs = duration(T),
\* session_type = T} with duration 1500 for Focus, 300 for ShortBreak and 900
\* for LongBreak, and leaves focus_sessions_completed unchanged.
C9_StartFromAnyState ==
    /\ [](\A T \in SessionType :
            start(timer, T) =
                [state |-> Running(StatedDuration(T), T),
                 focus_sessions_completed |-> timer.focus_sessions_completed])
    /\ [][\A T \in SessionType : TimerStart(T) =>
            /\ timer'.state = Running(StatedDuration(T), T)
            /\ timer'.focus_sessions_completed
                    = timer.focus_sessions_completed]_vars

\* C9 witness: a LongBreak started on a timer that has completed sessions,
\* before any tick of the new session.
C9_Witness ==
    /\ timer.state = Running(900, LongBreak)
    /\ timer.focus_sessions_completed = 3
    /\ finished = TRUE
    /\ ticks = 0

\* C10: reset() from any state gives Idle and leaves
\* focus_sessions_completed unchanged; the next tick then returns false and
\* next_session_type() returns Focus.
C10_ResetToIdle ==
    /\ [](/\ reset(timer).state = Idle
          /\ reset(timer).focus_sessions_completed
                = timer.focus_sessions_completed
          /\ tick(reset(timer)) = [timer |-> reset(timer), ret |-> FALSE]
          /\ next_session_type(reset(timer)) = Focus)
    /\ [][TimerReset =>
            /\ timer'.state = Idle
            /\ timer'.focus_sessions_completed
                    = timer.focus_sessions_completed]_vars
    /\ [][(TimerTick /\ timer.state = Idle) =>
            (finished' = FALSE /\ timer' = timer)]_vars

\* C10 witness: a timer reset to Idle after four completed Focus sessions,
\* for which a LongBreak would have been next.
C10_Witness ==
    /\ timer.state = Idle
    /\ timer.focus_sessions_completed = 4
    /\ ticks = 0
    /\ signals = 1

\* C11: a step that takes a Running or Paused timer to Idle (Message::Skip is
\* the only handler that does) appends no session record, writes no profile
\* row and leaves the in-memory profile, the counters and the completed-Focus
\* count as they were, and clears the session start time; Skip on an Idle or
\* Finished timer changes no field of App at all.
C11_SkipNeverPersists ==
    /\ [][((is_running(timer) \/ is_paused(timer)) /\ timer'.state = Idle) =>
            /\ db' = db
            /\ profile' = profile
            /\ session_start_time' = None
            /\ timer'.focus_sessions_completed = timer.focus_sessions_completed
            /\ notifications' = << >>
            /\ UNCHANGED <<today_sessions, total_sessions, total_focus_secs,
                           level_up>>]_vars
    /\ [][(Skip /\ ~(is_running(timer) \/ is_paused(timer))) =>
            UNCHANGED <<timer, profile, current_view, db, session_start_time,
                        today_sessions, total_sessions, total_focus_secs,
                        weekly_data, level_up>>]_vars

\* C11 witness: with a store, the break after a stored Focus completion was
\* skipped: the timer is Idle again and the ledger has the one Focus row only.
C11_Witness ==
    /\ db # None
    /\ timer.state = Idle
    /\ timer.focus_sessions_completed = 1
    /\ session_start_time = None
    /\ Len(db[1].sessions) = 1
    /\ db[1].user_profile.total_xp = 110
    /\ profile.total_xp = 110

\* C12: focus_sessions_completed never decreases and changes only inside
\* tick(): it grows by exactly 1 in the step in which a Running Focus session
\* becomes Finished by countdown, and start, pause, resume, reset, the
\* completion of a break and every non-finishing tick leave it unchanged.
C12_CompletedCountMonotone ==
    /\ [][timer'.focus_sessions_completed =
            IF Completes(Focus)
            THEN timer.focus_sessions_completed + 1
            ELSE timer.focus_sessions_completed]_vars
    /\ [][timer'.focus_sessions_completed # timer.focus_sessions_completed =>
            (TimerTick /\ finished')]_vars
    /\ [][((\E T \in SessionType : TimerStart(T))
           \/ TimerPause \/ TimerResume \/ TimerReset
           \/ Completes(ShortBreak) \/ Completes(LongBreak)
           \/ (TimerTick /\ ~finished')) =>
            timer'.focus_sessions_completed = timer.focus_sessions_completed]_vars

\* C12 witness: a ShortBreak has finished by countdown after two completed
\* Focus sessions, and the count is still two.
C12_Witness ==
    /\ timer.state = Finished(ShortBreak)
    /\ timer.focus_sessions_completed = 2
    /\ finished = TRUE
    /\ ticks = 300

\* C13: progress() lies in [0, 1] in every reachable state: it is 0 in Idle
\* and immediately after start(T), it is (duration(T) - remaining) /
\* duration(T) in Running and Paused with the duration of the current session
\* type, pause and resume do not change it, and it is 1 in Finished{T} for
\* every T.
C13_ProgressInv ==
    LET p == progress(timer)
        T == timer.state.session_type
    IN /\ p.den > 0
       /\ 0 <= p.num
       /\ p.num <= p.den
       /\ timer.state = Idle => p.num = 0
       /\ (is_running(timer) /\ ticks = 0) => p.num = 0
       /\ (is_running(timer) \/ is_paused(timer)) =>
            p.num * StatedDuration(T)
                = (StatedDuration(T) - timer.state.remaining_secs) * p.den
       /\ is_finished(timer) => p.num = p.den

C13_Progress ==
    /\ []C13_ProgressInv
    /\ [][(TimerPause \/ TimerResume) => progress(timer') = progress(timer)]_vars

\* C13 witness: a ShortBreak paused half-way, its progress being 1/2.
C13_Witness ==
    /\ timer.state = Paused(150, ShortBreak)
    /\ progress(timer) = Ratio(150, 300)
    /\ ticks = 150

\* C14: update_streak(last, today, s) is 1 when last is None, max(s, 1) when
\* last is today, s + 1 when last is the day before today, and 1 for every
\* other difference in days, every negative one (last after today) included.
C14_UpdateStreak ==
    call.fn = "update_streak" =>
        LET last == call.args[1]
            today == call.args[2]
            s == call.args[3]
        IN /\ last = None => call.ret = 1
           /\ last = Some(today) => call.ret = (IF s >= 1 THEN s ELSE 1)
           /\ last = Some(today - 1) => call.ret = s + 1
           /\ (last # None /\ last[1] < today - 1) => call.ret = 1
           /\ (last # None /\ last[1] > today) => call.ret = 1

\* C14 witness: a streak of five whose last date lies two days after today
\* is answered with 1.
C14_Witness ==
    /\ call.fn = "update_streak"
    /\ call.args = <<Some(3), 1, 5>>
    /\ call.ret = 1

\* C15: for every streak s that a u32 holds, calculate_xp(s) returns (it does
\* not overflow or panic in the multiplication) 100 + min(10 * s, 200): a
\* value in [100, 300], 100 + 10 * s up to s = 20 and 300 for every s >= 20.
C15_AsStated ==
    call.fn = "calculate_xp" =>
        LET s == call.args[1]
        IN /\ call.ret # None
           /\ call.ret[1] = (IF s >= 20 THEN 300 ELSE 100 + 10 * s)
           /\ call.ret[1] \in 100..300

\* C16: for every total_xp >= 0, calculate_level(total_xp) is
\* floor(total_xp / 500) + 1: the level L >= 1 with
\* (L - 1) * 500 <= total_xp < L * 500, and no smaller total has a higher level.
C16_CalculateLevel ==
    call.fn = "calculate_level" =>
        LET total_xp == call.args[1]
            L == call.ret
        IN /\ L >= 1
           /\ (L - 1) * 500 <= total_xp
           /\ total_xp - (L - 1) * 500 < 500
           /\ \A x \in FnXps : x <= total_xp => calculate_level(x) <= L

\* C16 witness: calculate_level(500) = 2, the first total of level 2.
C16_Witness ==
    /\ call.fn = "calculate_level"
    /\ call.args = <<500>>
    /\ call.ret = 2

\* C17: for every total_xp >= 0, the XP within the current level,
\* total_xp - (calculate_level(total_xp) - 1) * 500, which level_progress
\* divides by 500, lies in [0, 499] (the progress in [0, 1)), and it is 0
\* exactly when total_xp is a multiple of 500.
C17_LevelProgress ==
    call.fn = "level_progress" =>
        LET total_xp == call.args[1]
            p == call.ret
        IN /\ p.den = 500
           /\ p.num = total_xp - (calculate_level(total_xp) - 1) * 500
           /\ p.num \in 0..499
           /\ p.num = 0 <=> (\E k \in 0..(total_xp \div 500) : total_xp = 500 * k)

\* C17 witness: level_progress(750) is 250 / 500.
C17_Witness ==
    /\ call.fn = "level_progress"
    /\ call.args = <<750>>
    /\ call.ret = Ratio(250, 500)

\* The order of the evolution stages.
StageRank(stage) ==
    CASE stage = "Egg" -> 1
      [] stage = "Hatchling" -> 2
      [] stage = "Junior" -> 3
      [] stage = "Senior" -> 4
      [] stage = "King" -> 5

\* C18: ferris_stage maps level 1 to Egg, 2-3 to Hatchling, 4-6 to Junior,
\* 7-9 to Senior and every level >= 10 to King, and over the levels >= 1 a
\* higher level never has an earlier stage.
C18_FerrisStage ==
    call.fn = "ferris_stage" =>
        LET level == call.args[1]
            stage == call.ret
        IN /\ level = 1 <=> stage = "Egg"
           /\ (2 <= level /\ level <= 3) <=> stage = "Hatchling"
           /\ (4 <= level /\ level <= 6) <=> stage = "Junior"
           /\ (7 <= level /\ level <= 9) <=> stage = "Senior"
           /\ level >= 10 <=> stage = "King"
           /\ \A l \in FnLevels :
                l <= level => StageRank(ferris_stage(l)) <= StageRank(stage)

\* C18 witness: ferris_stage(10) is King, the first level of the last stage.
C18_Witness ==
    /\ call.fn = "ferris_stage"
    /\ call.args = <<10>>
    /\ call.ret = "King"

\* The level-up events among the notifications of a handler.
LevelUps(n) == {i \in 1..Len(n) : n[i].event = "level_up"}

\* C19: a handler raises a level-up event exactly once, carrying the level
\* after the award (also recorded in level_up), if and only if it completes a
\* Focus session and the level after the award is above the level before it;
\* every other command and completion raises none and leaves level_up alone.
C19_LevelUpExactlyOnce ==
    [][LET raised == Completes(Focus) /\ profile'.level > profile.level
       IN /\ Cardinality(LevelUps(notifications')) = (IF raised THEN 1 ELSE 0)
          /\ raised =>
                /\ \A i \in LevelUps(notifications') :
                        notifications'[i].level = profile'.level
                /\ level_up' = Some(profile'.level)
          /\ ~raised => level_up' = level_up]_vars

\* C19 witness: the fourth Focus completion on consecutive days has brought
\* the total to 500 XP, and the handler has raised the level-up to level 2.
C19_Witness ==
    /\ is_finished(timer)
    /\ profile.total_xp = 500
    /\ profile.level = 2
    /\ level_up = Some(2)
    /\ Len(notifications) = 2
    /\ notifications[1] = notify_level_up(2, "Hatchling")

\* C20: starting from the default profile, longest_streak >= current_streak
\* in every state; each Focus completion leaves longest_streak at the maximum
\* of its previous value and the new current_streak, and no step decreases it.
C20_LongestStreakInv == profile.longest_streak >= profile.current_streak

C20_LongestStreak ==
    /\ []C20_LongestStreakInv
    /\ [][Completes(Focus) =>
            /\ profile'.longest_streak >= profile'.current_streak
            /\ profile'.longest_streak =
                 (IF profile'.current_streak >= profile.longest_streak
                  THEN profile'.current_streak
                  ELSE profile.longest_streak)]_vars
    /\ [][profile'.longest_streak >= profile.longest_streak]_vars

\* C20 witness: a Focus completion after a missed day has reset the current
\* streak to 1 while the longest streak stays at 2.
C20_Witness ==
    /\ timer.state = Finished(Focus)
    /\ finished = TRUE
    /\ profile.current_streak = 1
    /\ profile.longest_streak = 2
    /\ profile.last_session_date = Some(3)

\* C21: starting from the default profile, in every reachable state the
\* in-memory profile has level >= 1 and level = floor(total_xp / 500) + 1,
\* that is (level - 1) * 500 <= total_xp < level * 500.
C21_LevelMatchesXp ==
    /\ profile.level >= 1
    /\ (profile.level - 1) * 500 <= profile.total_xp
    /\ profile.total_xp < profile.level * 500
    /\ profile.level = calculate_level(profile.total_xp)

\* C21 witness: the long break after the Focus completion that reached 500 XP
\* is running, the profile being at level 2.
C21_Witness ==
    /\ timer.state = Running(900, LongBreak)
    /\ profile.total_xp = 500
    /\ profile.level = 2

\* C22: a Focus completion ends with the timer Finished{Focus} and gives the
\* in-memory profile the streak, date, XP and level update of the completion
\* day, whether the store is absent, rejects the session write, rejects the
\* profile write, or accepts both: the update does not depend on the store.
C22_CoreUnaffectedByStore ==
    [][Completes(Focus) =>
        /\ timer' = [state |-> Finished(Focus),
                     focus_sessions_completed |->
                        timer.focus_sessions_completed + 1]
        /\ \E today \in Days :
            /\ profile'.last_session_date = Some(today)
            /\ profile'.current_streak =
                 update_streak(profile.last_session_date, today,
                               profile.current_streak)
            /\ profile'.longest_streak =
                 Max(profile.longest_streak, profile'.current_streak)
            /\ profile'.total_xp =
                 profile.total_xp + calculate_xp(profile'.current_streak)
            /\ profile'.level = calculate_level(profile'.total_xp)
            /\ \A save_ok \in BOOLEAN, update_ok \in BOOLEAN :
                 Tick(today, save_ok, update_ok) =>
                    profile' = award_focus(profile, today)]_vars

\* C22 witness: a Focus completion whose two writes the store rejected: the
\* ledger and the stored profile are as before, the in-memory profile has
\* the award.
C22_Witness ==
    /\ db # None
    /\ timer.state = Finished(Focus)
    /\ finished = TRUE
    /\ db[1].sessions = << >>
    /\ db[1].user_profile.total_xp = 0
    /\ profile.total_xp = 110
    /\ profile.current_streak = 1

\* The lines of stderr that are not about a notification the desktop did not
\* show.
StoreWarnings(lines) ==
    {i \in 1..Len(lines) : lines[i] \notin {LEVEL_UP_NOT_SENT, NOT_SENT}}

\* C23: whenever the store rejects the session write of a completion, the
\* completion handler records the error as a warning in the log.
C23_AsStated ==
    [][\A now \in Days, update_ok \in BOOLEAN :
        (db # None /\ tick(timer).ret /\ Tick(now, FALSE, update_ok)) =>
            StoreWarnings(stderr') # {}]_vars

\* C25: the session ledger is append-only: every step keeps the stored
\* records as a prefix of the ledger, unmodified; the ledger changes only in
\* a step that completes a session by countdown; and each such completion
\* whose session write the store accepts appends exactly one record, with
\* completed = true and the type of the finished session.
C25_LedgerAppendOnly ==
    /\ [][db # None =>
            /\ db' # None
            /\ Len(db'[1].sessions) >= Len(db[1].sessions)
            /\ SubSeq(db'[1].sessions, 1, Len(db[1].sessions)) = db[1].sessions
            /\ (db'[1].sessions # db[1].sessions =>
                    \E T \in SessionType : Completes(T))]_vars
    /\ [][\A now \in Days, update_ok \in BOOLEAN :
            (db # None /\ tick(timer).ret /\ Tick(now, TRUE, update_ok)) =>
                LET n == Len(db[1].sessions)
                    row == db'[1].sessions[n + 1]
                IN /\ Len(db'[1].sessions) = n + 1
                   /\ row.completed = TRUE
                   /\ row.session_type = as_str(timer.state.session_type)
                   /\ row.id = n + 1]_vars

\* C25 witness: a Focus session and the short break after it were completed
\* and stored: the ledger holds the two records in that order.
C25_Witness ==
    /\ db # None
    /\ Len(db[1].sessions) = 2
    /\ db[1].sessions[1].session_type = "focus"
    /\ db[1].sessions[1].completed
    /\ db[1].sessions[2].session_type = "short_break"
    /\ db[1].sessions[2].completed
    /\ timer.state = Finished(ShortBreak)

\* The duration the specification states for a stored session_type text.
StatedDurationOfText(text) ==
    CASE text = "focus" -> 1500
      [] text = "short_break" -> 300
      [] text = "long_break" -> 900

\* C30: every session record the completion handler writes has duration_secs
\* equal to the configured duration of the record's session_type: 1500 for
\* Focus, 300 for ShortBreak and 900 for LongBreak.
C30_AsStated ==
    db # None =>
        \A i \in DOMAIN db[1].sessions :
            db[1].sessions[i].duration_secs
                = StatedDurationOfText(db[1].sessions[i].session_type)

\* C24: a stored last_session_date that does not parse as a date is read as
\* None without failing the load: the other four fields are the stored ones,
\* and the next Focus completion, on any day, sets current_streak to 1
\* whatever the stored streak.
C24_MalformedDateIsAbsent ==
    (call.fn = "get_profile" /\ db[1].user_profile.last_session_date # None
        /\ db[1].user_profile.last_session_date[1] \in UnparsableDates) =>
        LET row == db[1].user_profile
            p == call.ret
        IN /\ p.last_session_date = None
           /\ p.total_xp = row.total_xp
           /\ p.level = row.level
           /\ p.current_streak = row.current_streak
           /\ p.longest_streak = row.longest_streak
           /\ \A today \in RowDays :
                complete_profile(p, Focus, today).current_streak = 1

\* C24 witness: a row with a streak of 2 and an empty date text has been
\* read: the streak is loaded and the date is None.
C24_Witness ==
    /\ call.fn = "get_profile"
    /\ db[1].user_profile.last_session_date = Some(EmptyString)
    /\ db[1].user_profile.current_streak = 2
    /\ call.ret.current_streak = 2
    /\ call.ret.total_xp = 500
    /\ call.ret.last_session_date = None

\* C29: after update_profile(p), get_profile returns p in every field, the
\* profile row is still the one row of the store and the ledger is
\* untouched, and writing p once more leaves the store as it is.
C29_ProfileRoundTrip ==
    call.fn = "update_profile" =>
        LET p == call.args[1]
        IN /\ get_profile(db[1]) = p
           /\ get_profile(db[1]).last_session_date = p.last_session_date
           /\ DOMAIN db[1] = {"user_profile", "sessions"}
           /\ db[1].sessions = << >>
           /\ update_profile(db[1], p) = db[1]

\* C29 witness: the profile of test_profile_roundtrip (500 XP, level 2, a
\* streak and a date) has been written over a row whose date did not parse.
C29_Witness ==
    /\ call.fn = "update_profile"
    /\ call.args = <<Profile(500, 2, 2, 2, Some(2))>>
    /\ db[1].user_profile.last_session_date = Some(format_date(2))
    /\ db[1].user_profile.total_xp = 500

\* Whether a stored record is a completed Focus session started on day.
FocusDoneOn(row, day) ==
    /\ row.session_type = "focus"
    /\ row.completed
    /\ Len(row.started_at) = 2
    /\ row.started_at[2] = day

\* The completed Focus records among rows that started on one of days.
RECURSIVE CountFocusDone(_, _)
CountFocusDone(rows, days) ==
    IF rows = << >>
    THEN 0
    ELSE (IF \E day \in days : FocusDoneOn(Head(rows), day) THEN 1 ELSE 0)
         + CountFocusDone(Tail(rows), days)

\* C26: get_today_session_count(date) is the number of stored records with
\* session_type Focus, completed = true and a start timestamp on that date:
\* breaks, uncompleted records, other dates and empty start texts are not
\* counted.
C26_TodaySessionCount ==
    call.fn = "get_today_session_count" =>
        call.ret = CountFocusDone(db[1].sessions, {call.args[1][2]})

\* C26 witness: one completed Focus session started on day 1 was appended to
\* the empty ledger, and the count for day 1 is 1.
C26_Witness ==
    /\ call.fn = "get_today_session_count"
    /\ call.args = <<format_date(1)>>
    /\ Len(db[1].sessions) = 1
    /\ FocusDoneOn(db[1].sessions[1], 1)
    /\ call.ret = 1

\* The sum of duration_secs over the completed Focus records of rows.
RECURSIVE SumFocusDone(_)
SumFocusDone(rows) ==
    IF rows = << >>
    THEN 0
    ELSE (IF Head(rows).session_type = "focus" /\ Head(rows).completed
          THEN Head(rows).duration_secs
          ELSE 0)
         + SumFocusDone(Tail(rows))

\* C27: get_total_stats() is the number of stored completed Focus records and
\* the sum of their duration_secs, over all dates and start texts: (0, 0)
\* when there is none, and records equal in every field are each counted.
C27_TotalStats ==
    call.fn = "get_total_stats" =>
        LET rows == db[1].sessions
            done == {i \in 1..Len(rows) :
                        rows[i].session_type = "focus" /\ rows[i].completed}
        IN /\ call.ret = <<Cardinality(done), SumFocusDone(rows)>>
           /\ done = {} => call.ret = <<0, 0>>

\* C27 witness: the same completed 1500-second Focus session was appended
\* twice, and the statistics are (2, 3000).
C27_Witness ==
    /\ call.fn = "get_total_stats"
    /\ Len(db[1].sessions) = 2
    /\ [db[1].sessions[1] EXCEPT !.id = 2] = db[1].sessions[2]
    /\ db[1].sessions[1].duration_secs = 1500
    /\ call.ret = <<2, 3000>>

\* C28: get_sessions_in_range(start, end) returns exactly one (day, count)
\* pair for each day of [start, end] with at least one completed Focus
\* session started that day, count being their number, in strictly ascending
\* day order, and no pair for a day without one or outside the range.
C28_SessionsInRange ==
    call.fn = "get_sessions_in_range" =>
        LET lo == call.args[1][2]
            hi == call.args[2][2]
            rows == db[1].sessions
            pairs == call.ret
        IN /\ \A i \in 1..Len(pairs) :
                /\ pairs[i][1][1] = DATE_FMT
                /\ pairs[i][1][2] \in lo..hi
                /\ pairs[i][2] = CountFocusDone(rows, {pairs[i][1][2]})
                /\ pairs[i][2] >= 1
           /\ \A i \in 1..Len(pairs), j \in 1..Len(pairs) :
                i < j => pairs[i][1][2] < pairs[j][1][2]
           /\ \A day \in lo..hi :
                CountFocusDone(rows, {day}) >= 1 =>
                    \E i \in 1..Len(pairs) : pairs[i][1][2] = day

\* C28 witness: a completed Focus session of day 1 was stored before one of
\* day 0, and the range [0, 1] has the pairs of day 0 and day 1 in that order.
C28_Witness ==
    /\ call.fn = "get_sessions_in_range"
    /\ call.args = <<format_date(0), format_date(1)>>
    /\ Len(db[1].sessions) = 2
    /\ FocusDoneOn(db[1].sessions[1], 1)
    /\ FocusDoneOn(db[1].sessions[2], 0)
    /\ call.ret = <<<<format_date(0), 1>>, <<format_date(1), 1>>>>

\* C31: over any sequence of messages and any pattern of rejected writes, the
\* in-memory profile's total_xp never decreases.
C31_AsStated == [][profile'.total_xp >= profile.total_xp]_vars

\* C32: after every Focus completion in which the store is open and accepts
\* the profile write, the stored profile row read back equals the in-memory
\* profile in every field; and a stats refresh that reads a stored row equal
\* to the in-memory profile leaves the in-memory profile unchanged.
C32_StoredProfileInSync ==
    /\ [][\A now \in Days, save_ok \in BOOLEAN :
            (db # None /\ Completes(Focus) /\ Tick(now, save_ok, TRUE)) =>
                /\ get_profile(db'[1]) = profile'
                /\ db'[1].user_profile.total_xp = profile'.total_xp
                /\ db'[1].user_profile.level = profile'.level
                /\ db'[1].user_profile.current_streak = profile'.current_streak
                /\ db'[1].user_profile.longest_streak = profile'.longest_streak
                /\ db'[1].user_profile.last_session_date =
                     Some(format_date(profile'.last_session_date[1]))]_vars
    /\ [][(db # None /\ current_view' = "Stats" /\ timer' = timer
            /\ get_profile(db[1]) = profile
            /\ \E now \in Days, queries_ok \in BOOLEAN, profile_ok \in BOOLEAN :
                    SwitchView("Stats", now, queries_ok, queries_ok,
                               queries_ok, profile_ok)) =>
            profile' = profile]_vars

\* C32 witness: the Stats view was opened after a Focus completion whose
\* profile write the store accepted (the session write it rejected): the
\* stored row and the in-memory profile both have the award.
C32_Witness ==
    /\ db # None
    /\ current_view = "Stats"
    /\ timer.state = Finished(Focus)
    /\ db[1].sessions = << >>
    /\ db[1].user_profile.total_xp = 110
    /\ db[1].user_profile.current_streak = 1
    /\ profile = get_profile(db[1])
    /\ profile.total_xp = 110

\* C33: in every reachable state session_start_time is set exactly when the
\* timer is Running or Paused, and every stored session record has a
\* non-empty start timestamp; the record a completion appends carries the
\* start time that the Start of that session recorded.
C33_StartTimeInv ==
    /\ (session_start_time # None) <=> (is_running(timer) \/ is_paused(timer))
    /\ session_start_time # None =>
            /\ session_start_time[1] # EmptyString
            /\ session_start_time[1][1] = TIMESTAMP_FMT
    /\ db # None =>
            \A i \in DOMAIN db[1].sessions :
                db[1].sessions[i].started_at # EmptyString

C33_StartTimeSetIffActive ==
    /\ []C33_StartTimeInv
    /\ [][\A now \in Days :
            Start(now) => session_start_time' = Some(format_timestamp(now))]_vars
    /\ [][(db # None /\ Len(db'[1].sessions) = Len(db[1].sessions) + 1) =>
            /\ session_start_time # None
            /\ db'[1].sessions[Len(db'[1].sessions)].started_at
                    = session_start_time[1]
            /\ session_start_time' = None]_vars

\* C33 witness: the short break after a stored Focus session is paused: the
\* start time of the break is set, and the Focus record carries the start
\* timestamp of day 0 although it was completed on day 1.
C33_Witness ==
    /\ db # None
    /\ is_paused(timer)
    /\ timer.state.session_type = ShortBreak
    /\ session_start_time = Some(format_timestamp(1))
    /\ Len(db[1].sessions) = 1
    /\ db[1].sessions[1].started_at = format_timestamp(0)
    /\ db[1].sessions[1].completed_at = Some(format_timestamp(1))

\* C34: with ticks arriving while the timer is Running, every pause followed
\* by a resume and no skip or restart of a session in progress, a Running
\* session of type T leads to Finished with the same type T; the completion
\* handler runs in the step that finishes the session and in no other step,
\* so exactly once per session; while the timer is Paused no step changes
\* the remaining time or the session type, and a resume continues from it.
C34_HandlerOncePerSession ==
    /\ (is_running(timer) \/ is_paused(timer)) => signals = 0
    /\ is_finished(timer) => signals = 1

C34_RunningLeadsToFinished ==
    /\ \A T \in SessionType :
         (is_running(timer) /\ timer.state.session_type = T)
             ~> (is_finished(timer) /\ timer.state.session_type = T)
    /\ []C34_HandlerOncePerSession
    /\ [][(notifications' # << >>) <=>
            (is_running(timer) /\ is_finished(timer')
             /\ timer'.state.session_type = timer.state.session_type)]_vars
    /\ [][is_paused(timer) =>
            /\ timer'.state.remaining_secs = timer.state.remaining_secs
            /\ timer'.state.session_type = timer.state.session_type
            /\ is_paused(timer') \/ is_running(timer')]_vars

\* C34 witness: a short break has run to its end after its Focus session:
\* every one of its seconds was ticked and the handler has run for it.
C34_Witness ==
    /\ timer.state = Finished(ShortBreak)
    /\ timer.focus_sessions_completed = 1
    /\ ticks = SHORT_BREAK_SECS
    /\ signals = 1
    /\ Len(notifications) = 1
    /\ notifications[1] = notify_session_complete(ShortBreak, None)

====
